---- MODULE Spec2Model ----
(***************************************************************************)
(* Model of metis-wizard (src/metis_wizard/metis_wizard.py, 2.1.0):        *)
(* prepare_namelist, MetisNamelist, MetisPartitioner and the command line  *)
(* entry point main.                                                       *)
(*                                                                         *)
(* A namelist document is a function from section names to functions from  *)
(* field names to values.  An optional Python value is a sequence of       *)
(* length at most one: <<>> is None, <<v>> is the value v.  A string that  *)
(* int() is applied to is the sequence of its code points: "-2" is         *)
(* <<45, 50>>.  An element of main's n_part list is [int |-> v] or         *)
(* [str |-> s], as the list mixes the integers of the checkbox with        *)
(* strings.                                                                *)
(***************************************************************************)
EXTENDS Integers, Sequences, FiniteSets, TLC

\* ------------------------------------------------------------------ bounds
MaxArgs == 2
MaxCustom == 1

\* ------------------------------------------------------- program constants
_BIN == "fesom_ini"
OUT == "namelist.config"
DefaultNPart == 288
Choices == <<72, 144, 288, 432, 864>>

\* ----------------------------------------------------------- input alphabets
None == <<>>
Some(v) == <<v>>
CUSTOM_NML == "custom.nml"
CUSTOM_BIN == "/opt/fesom/bin/fesom_ini"
MeshPaths == {"/data/mesh1"}
\* "4", "0", "-2", "2.5", U+2028 then "12", "1_0", DEVANAGARI DIGIT THREE
ArgStrings == {<<52>>, <<48>>, <<45, 50>>, <<50, 46, 53>>,
               <<8232, 49, 50>>, <<49, 95, 48>>, <<2409>>}
\* "100", "7", "-3"
CustomTexts == {<<49, 48, 48>>, <<55>>, <<45, 51>>}
AngleValues == {0, 10}
Rotations == {<<10, 20, 30>>}
ExitCodes == {0, 1}
CallCounts == {-1, 0, 1, 288}

\* ------------------------------------------------------ namelist documents
SetField(m, f, v) == [k \in (DOMAIN m) \cup {f} |-> IF k = f THEN v ELSE m[k]]

DropFields(m, fs) == [k \in (DOMAIN m) \ fs |-> m[k]]

FullTemplate(lv, np, cav) ==
    [paths |-> [meshpath |-> "/tmpl/mesh/", resultpath |-> "../results/"],
     machine |-> [n_levels |-> lv, n_part |-> np],
     geometry |-> [cartesian |-> FALSE, alphaeuler |-> 50,
                   betaeuler |-> 15, gammaeuler |-> -90],
     ale_def |-> [which_ale |-> "linfs", use_partial_cell |-> cav],
     run_config |-> [lwiso |-> FALSE, use_cavity |-> cav,
                     use_cavity_partial_cell |-> cav]]

\* a template that has every section but none of the fields the tool sets
SparseTemplate ==
    [paths |-> [resultpath |-> "../results/"],
     machine |-> [system_arch |-> 1],
     geometry |-> [cartesian |-> TRUE],
     ale_def |-> [which_ale |-> "zstar"],
     run_config |-> [lwiso |-> TRUE]]

MainTemplates ==
    {FullTemplate(2, 2, FALSE),
     DropFields(FullTemplate(3, 16, TRUE), {"ale_def"})}

Templates ==
    MainTemplates \cup
    {FullTemplate(3, 16, TRUE),
     FullTemplate(1, 288, FALSE),
     SparseTemplate,
     DropFields(FullTemplate(2, 2, FALSE), {"geometry"}),
     DropFields(FullTemplate(2, 2, TRUE), {"run_config"}),
     DropFields(FullTemplate(2, 2, FALSE), {"machine"})}

\* nml[s][f] = v : reading nml[s] raises KeyError when the section is absent
SetItem(r, s, f, v) ==
    IF r.err # "none" THEN r
    ELSE IF s \notin DOMAIN r.doc THEN [err |-> "KeyError", doc |-> r.doc]
    ELSE [err |-> "none", doc |-> [r.doc EXCEPT ![s] = SetField(@, f, v)]]

\* variant: the mesh path is stored in the result path as well
set_mesh_AlsoResult(r, mesh_path) ==
    SetItem(SetItem(r, "paths", "meshpath", mesh_path),
            "paths", "resultpath", mesh_path)

set_mesh(r, mesh_path) == SetItem(r, "paths", "meshpath", mesh_path)

\* variant: the level count of the template is kept
set_partitioning_KeepLevels(r, n) == SetItem(r, "machine", "n_part", n)

\* variant: a count that is not positive is refused
set_partitioning_Validate(r, n) ==
    IF r.err = "none" /\ n <= 0
    THEN [err |-> "InvalidPartitionCountError", doc |-> r.doc]
    ELSE SetItem(SetItem(r, "machine", "n_levels", 1), "machine", "n_part", n)

set_partitioning(r, n) ==
    SetItem(SetItem(r, "machine", "n_levels", 1), "machine", "n_part", n)

ApplyAngle(r, f, a) == IF a # None THEN SetItem(r, "geometry", f, a[1]) ELSE r

\* variant: a disabled cavity flag resets the three fields
ApplyCavity_Reset(r, cav) ==
    SetItem(SetItem(SetItem(r, "ale_def", "use_partial_cell", cav),
                    "run_config", "use_cavity", cav),
            "run_config", "use_cavity_partial_cell", cav)

ApplyCavity(r, cav) ==
    IF cav
    THEN SetItem(SetItem(SetItem(r, "ale_def", "use_partial_cell", TRUE),
                         "run_config", "use_cavity", TRUE),
                 "run_config", "use_cavity_partial_cell", TRUE)
    ELSE r

\* the template prepare_namelist loads: the bundled one, or the file at path
ReadTemplate(path, bundledDoc, files) ==
    IF path # None THEN files[path[1]] ELSE bundledDoc

\* variant: a rotation with one or two angles missing is refused
prepare_namelist_AllOrNothing(tmpl, mesh_path, n, a, b, g, cav) ==
    LET given == {x \in {<<1, a>>, <<2, b>>, <<3, g>>} : x[2] # None}
        r0 == IF Cardinality(given) \in {1, 2}
              THEN [err |-> "ValueError", doc |-> tmpl]
              ELSE [err |-> "none", doc |-> tmpl]
        r1 == set_mesh(r0, mesh_path)
        r2 == set_partitioning(r1, n)
        r3 == ApplyAngle(r2, "alphaeuler", a)
        r4 == ApplyAngle(r3, "betaeuler", b)
        r5 == ApplyAngle(r4, "gammaeuler", g)
    IN  ApplyCavity(r5, cav)

prepare_namelist(tmpl, mesh_path, n, a, b, g, cav) ==
    LET r0 == [err |-> "none", doc |-> tmpl]
        r1 == set_mesh(r0, mesh_path)
        r2 == set_partitioning(r1, n)
        r3 == ApplyAngle(r2, "alphaeuler", a)
        r4 == ApplyAngle(r3, "betaeuler", b)
        r5 == ApplyAngle(r4, "gammaeuler", g)
    IN  ApplyCavity(r5, cav)

\* nml.write("namelist.config", force=True)
WriteFile(files, path, doc) ==
    [p \in (DOMAIN files) \cup {path} |-> IF p = path THEN doc ELSE files[p]]

\* ------------------------------------------------------------------- int()
\* sys.get_int_max_str_digits(): a literal with more digits is refused
MaxStrDigits == 4300

\* The code points of the zero of every run of Unicode decimal digits
\* (category Nd): the nine that follow each are its digits one to nine.
DigitZeros ==
    {48, 1632, 1776, 1984, 2406, 2534, 2662, 2790, 2918, 3046, 3174, 3302,
     3430, 3558, 3664, 3792, 3872, 4160, 4240, 6112, 6160, 6470, 6608, 6784,
     6800, 6992, 7088, 7232, 7248, 42528, 43216, 43264, 43472, 43504, 43600,
     44016, 65296, 66720, 68912, 69734, 69872, 69942, 70096, 70384, 70736,
     70864, 71248, 71360, 71472, 71904, 72016, 72784, 73040, 73120, 92768,
     92864, 93008, 120782, 120792, 120802, 120812, 120822, 123200, 123632,
     125264, 130032}

IsDigit(c) == \E z \in DigitZeros : z <= c /\ c <= z + 9

DigitOf(c) == c - (CHOOSE z \in DigitZeros : z <= c /\ c <= z + 9)

\* the code points int() skips around the literal
Whitespace ==
    {9, 10, 11, 12, 13, 32, 133, 160, 5760, 8192, 8193, 8194, 8195, 8196,
     8197, 8198, 8199, 8200, 8201, 8202, 8232, 8233, 8239, 8287, 12288}

RECURSIVE LStrip(_)
LStrip(s) ==
    IF Len(s) > 0 /\ s[1] \in Whitespace THEN LStrip(Tail(s)) ELSE s

RECURSIVE RStrip(_)
RStrip(s) ==
    IF Len(s) > 0 /\ s[Len(s)] \in Whitespace
    THEN RStrip(SubSeq(s, 1, Len(s) - 1)) ELSE s

Strip(s) == RStrip(LStrip(s))

\* the literal without surrounding whitespace and without its sign + or -
Unsigned(s) ==
    IF Len(Strip(s)) > 0 /\ Strip(s)[1] \in {43, 45}
    THEN Tail(Strip(s)) ELSE Strip(s)

\* digits, with single underscores (95) allowed between two digits
IsIntLiteral(s) ==
    LET b == Unsigned(s)
    IN  /\ Len(b) > 0
        /\ \A k \in 1..Len(b) : IsDigit(b[k]) \/ b[k] = 95
        /\ \A k \in 1..Len(b) :
              b[k] = 95 => /\ k > 1 /\ k < Len(b)
                           /\ IsDigit(b[k - 1]) /\ IsDigit(b[k + 1])
        /\ Len(SelectSeq(b, IsDigit)) <= MaxStrDigits

RECURSIVE DigitsValue(_)
DigitsValue(d) ==
    IF d = <<>> THEN 0
    ELSE 10 * DigitsValue(SubSeq(d, 1, Len(d) - 1)) + DigitOf(d[Len(d)])

StrToInt(s) ==
    LET v == DigitsValue(SelectSeq(Unsigned(s), IsDigit))
    IN  IF Len(Strip(s)) > 0 /\ Strip(s)[1] = 45 THEN 0 - v ELSE v

IsStr(item) == DOMAIN item = {"str"}

\* int(n) for an element of the list: does it raise ValueError, and its value
IntFails(item) == IsStr(item) /\ ~IsIntLiteral(item.str)

IntOf(item) == IF IsStr(item) THEN StrToInt(item.str) ELSE item.int

\* list += text : the list is extended by the characters of the string
ExtendWithText(list, text) ==
    list \o [k \in 1..Len(text) |-> [str |-> <<text[k]>>]]

\* n_part or [288]
OrDefault(list) == IF Len(list) = 0 THEN <<[int |-> DefaultNPart]>> ELSE list

ConvertAll(list) == [k \in 1..Len(list) |-> [int |-> IntOf(list[k])]]

\* ------------------------------------------------------- MetisPartitioner
\* self.bin = bin or self._BIN
BinOf(bin_arg) == IF bin_arg # None /\ bin_arg[1] # "" THEN bin_arg[1] ELSE _BIN

\* shutil.which(self.bin) is truthy
Which(b, path_env) == b \in path_env

\* the assert of line 99 is compiled out when Python runs with -O
LookupPasses(b, path_env, opt) == opt \/ Which(b, path_env)

\* subprocess.run(self.bin, shell=True): the shell exits 127 for a command
\* it does not find and 126 for one it cannot execute
ChildExitCodes(b, path_env) ==
    IF Which(b, path_env) THEN ExitCodes ELSE {126, 127}

\* ------------------------------------------------------------------- state
VARIABLES
    argv,         \* positional n_part arguments of the command line
    interactive,  \* --interactive
    rotated,      \* --rotated : None or a triple
    use_cavity,   \* --use-cavity / use_cavity argument
    fesom_ini,    \* --fesom-ini : None or a path
    namelist,     \* --namelist / namelist_path : None or a path
    mesh_path,    \* mesh_path argument
    on_path,      \* the names shutil.which resolves
    optimize,     \* the interpreter runs with -O / PYTHONOPTIMIZE
    bundled,      \* the packaged namelist.config template
    answers,      \* what the user will answer to the prompts
    fs,           \* files in the working directory : path -> document
    alpha, beta, gamma,
    n_part,       \* main's n_part list
    asked,        \* number of custom texts entered so far
    bin,          \* partitioner.bin, None before construction
    i,            \* index of the request the loop is at
    events,       \* file writes, spawns and exits of the child, in order
    successes,    \* counts for which logger.success was called
    outcome,      \* how main / the call ended
    call_n,       \* n_part argument of a direct call of prepare_namelist
    result,       \* value of a direct call of prepare_namelist
    pc

vars == <<argv, interactive, rotated, use_cavity, fesom_ini, namelist,
          mesh_path, on_path, optimize, bundled, answers, fs, alpha, beta,
          gamma,
          n_part, asked, bin, i, events, successes, outcome, call_n,
          result, pc>>

inputs == <<argv, interactive, rotated, use_cavity, fesom_ini, namelist,
            mesh_path, on_path, optimize, bundled, answers, call_n>>

NoResult == [err |-> "not called", doc |-> <<>>]

\* ------------------------------------------------------------------- inputs
RECURSIVE SeqsUpTo(_, _)
SeqsUpTo(S, n) ==
    IF n = 0 THEN {<<>>}
    ELSE LET shorter == SeqsUpTo(S, n - 1)
         IN  shorter \cup {Append(q, x) : q \in shorter, x \in S}

\* the checked boxes, in the order of the choices
RECURSIVE Pick(_, _)
Pick(seq, keep) ==
    IF seq = <<>> THEN <<>>
    ELSE LET rest == Pick(SubSeq(seq, 1, Len(seq) - 1), keep)
         IN  IF Len(seq) \in keep THEN Append(rest, [int |-> seq[Len(seq)]])
             ELSE rest

Selections == {Pick(Choices, keep) : keep \in SUBSET (1..Len(Choices))}

ArgLists == SeqsUpTo({[str |-> s] : s \in ArgStrings}, MaxArgs)

NoAnswers == [selection |-> <<>>, texts |-> <<>>, proceed |-> TRUE]

AnswerSets(ia, args) ==
    IF ~ia THEN {NoAnswers}
    ELSE IF Len(args) > 0
    THEN {[selection |-> <<>>, texts |-> <<>>, proceed |-> p] : p \in BOOLEAN}
    ELSE {[selection |-> s, texts |-> t, proceed |-> p] :
            s \in Selections, t \in SeqsUpTo(CustomTexts, MaxCustom),
            p \in BOOLEAN}

\* the template and the files of the working directory: the bundled template,
\* a custom template, or namelist.config itself given as the template
InitFiles(tmplSet) ==
    \E t \in tmplSet :
        \/ namelist = None /\ bundled = t /\ fs \in {<<>>, [p \in {OUT} |-> t]}
        \/ /\ namelist = Some(CUSTOM_NML) /\ bundled = FullTemplate(2, 2, FALSE)
           /\ fs = [p \in {CUSTOM_NML} |-> t]
        \/ /\ namelist = Some(OUT) /\ bundled = FullTemplate(2, 2, FALSE)
           /\ fs = [p \in {OUT} |-> t]

Init ==
    /\ argv \in ArgLists
    /\ interactive \in BOOLEAN
    /\ rotated \in {None} \cup {Some(r) : r \in Rotations}
    /\ use_cavity \in BOOLEAN
    /\ fesom_ini \in {None, Some(CUSTOM_BIN)}
    /\ on_path \in {{}, {_BIN}, {CUSTOM_BIN}}
    /\ optimize \in BOOLEAN
    /\ mesh_path \in MeshPaths
    /\ InitFiles(MainTemplates)
    /\ answers \in AnswerSets(interactive, argv)
    /\ alpha = None /\ beta = None /\ gamma = None
    /\ n_part = argv
    /\ asked = 0
    /\ bin = None
    /\ i = 0
    /\ events = <<>>
    /\ successes = <<>>
    /\ outcome = "running"
    /\ call_n = 0
    /\ result = NoResult
    /\ pc = "options"

\* --------------------------------------------------------------------- main
\* lines 204-211
ParseOptions ==
    /\ pc = "options"
    /\ IF rotated # None
       THEN /\ alpha' = Some(rotated[1][1])
            /\ beta' = Some(rotated[1][2])
            /\ gamma' = Some(rotated[1][3])
       ELSE alpha' = None /\ beta' = None /\ gamma' = None
    /\ pc' = "select"
    /\ UNCHANGED <<inputs, fs, n_part, asked, bin, i, events, successes,
                   outcome, result>>

\* lines 212-220 : the checkbox is asked only without positional counts
AskCheckbox ==
    /\ pc = "select"
    /\ IF Len(n_part) = 0 /\ interactive
       THEN n_part' = answers.selection /\ pc' = "custom"
       ELSE n_part' = n_part /\ pc' = "proceed"
    /\ UNCHANGED <<inputs, fs, alpha, beta, gamma, asked, bin, i, events,
                   successes, outcome, result>>

\* lines 221-226 : one turn of the while loop
AddCustom ==
    /\ pc = "custom"
    /\ asked < Len(answers.texts)
    /\ n_part' = ExtendWithText(n_part, answers.texts[asked + 1])
    /\ asked' = asked + 1
    /\ UNCHANGED <<inputs, fs, alpha, beta, gamma, bin, i, events, successes,
                   outcome, result, pc>>

\* line 221 : the user answers no
NoMoreCustom ==
    /\ pc = "custom"
    /\ asked = Len(answers.texts)
    /\ pc' = "proceed"
    /\ UNCHANGED <<inputs, fs, alpha, beta, gamma, n_part, asked, bin, i,
                   events, successes, outcome, result>>

\* lines 227-229
ConfirmProceed ==
    /\ pc = "proceed"
    /\ IF interactive /\ ~answers.proceed
       THEN pc' = "done" /\ outcome' = "exited"
       ELSE pc' = "convert" /\ outcome' = outcome
    /\ UNCHANGED <<inputs, fs, alpha, beta, gamma, n_part, asked, bin, i,
                   events, successes, result>>

\* lines 230-231
ConvertCounts ==
    /\ pc = "convert"
    /\ IF \E k \in 1..Len(OrDefault(n_part)) : IntFails(OrDefault(n_part)[k])
       THEN /\ n_part' = OrDefault(n_part)
            /\ pc' = "done" /\ outcome' = "ValueError"
       ELSE /\ n_part' = ConvertAll(OrDefault(n_part))
            /\ pc' = "construct" /\ outcome' = outcome
    /\ UNCHANGED <<inputs, fs, alpha, beta, gamma, asked, bin, i, events,
                   successes, result>>

\* lines 235-236 and 89-101
ConstructPartitioner ==
    /\ pc = "construct"
    /\ bin' = Some(BinOf(fesom_ini))
    /\ IF LookupPasses(BinOf(fesom_ini), on_path, optimize)
       THEN pc' = "write" /\ i' = 1 /\ outcome' = outcome
       ELSE pc' = "done" /\ i' = i /\ outcome' = "MetisPartitionerError"
    /\ UNCHANGED <<inputs, fs, alpha, beta, gamma, n_part, asked, events,
                   successes, result>>

\* variant: a namelist.config that is already there is not overwritten
WriteNamelist_KeepExisting ==
    /\ pc = "write"
    /\ LET n == n_part[i].int
           r == prepare_namelist(ReadTemplate(namelist, bundled, fs),
                                 mesh_path, n, alpha, beta, gamma, use_cavity)
       IN  IF r.err # "none"
           THEN /\ pc' = "done" /\ outcome' = r.err
                /\ UNCHANGED <<fs, events>>
           ELSE IF OUT \in DOMAIN fs
           THEN /\ pc' = "spawn" /\ outcome' = outcome
                /\ UNCHANGED <<fs, events>>
           ELSE /\ fs' = WriteFile(fs, OUT, r.doc)
                /\ events' = Append(events, [ev |-> "write", idx |-> i,
                                             n |-> n, code |-> 0])
                /\ pc' = "spawn" /\ outcome' = outcome
    /\ UNCHANGED <<inputs, alpha, beta, gamma, n_part, asked, bin, i,
                   successes, result>>

\* lines 237-239 and 114-118 : prepare the namelist and write it
WriteNamelist ==
    /\ pc = "write"
    /\ LET n == n_part[i].int
           r == prepare_namelist(ReadTemplate(namelist, bundled, fs),
                                 mesh_path, n, alpha, beta, gamma, use_cavity)
       IN  IF r.err # "none"
           THEN /\ pc' = "done" /\ outcome' = r.err
                /\ UNCHANGED <<fs, events>>
           ELSE /\ fs' = WriteFile(fs, OUT, r.doc)
                /\ events' = Append(events, [ev |-> "write", idx |-> i,
                                             n |-> n, code |-> 0])
                /\ pc' = "spawn" /\ outcome' = outcome
    /\ UNCHANGED <<inputs, alpha, beta, gamma, n_part, asked, bin, i,
                   successes, result>>

\* line 121 : the child process is started
SpawnPartitioner ==
    /\ pc = "spawn"
    /\ events' = Append(events, [ev |-> "spawn", idx |-> i,
                                 n |-> n_part[i].int, code |-> 0])
    /\ pc' = "wait"
    /\ UNCHANGED <<inputs, fs, alpha, beta, gamma, n_part, asked, bin, i,
                   successes, outcome, result>>

\* variant: a non-zero exit code is not checked, the loop goes on
PartitionerExit_Continue ==
    /\ pc = "wait"
    /\ \E code \in ChildExitCodes(bin[1], on_path) :
        /\ events' = Append(events, [ev |-> "exit", idx |-> i,
                                     n |-> n_part[i].int, code |-> code])
        /\ successes' = Append(successes, n_part[i].int)
        /\ IF i < Len(n_part)
           THEN pc' = "write" /\ i' = i + 1 /\ outcome' = outcome
           ELSE pc' = "done" /\ i' = i /\ outcome' = "ok"
    /\ UNCHANGED <<inputs, fs, alpha, beta, gamma, n_part, asked, bin,
                   result>>

\* variant: the written namelist.config is removed when the child fails
PartitionerExit_Cleanup ==
    /\ pc = "wait"
    /\ \E code \in ChildExitCodes(bin[1], on_path) :
        /\ events' = Append(events, [ev |-> "exit", idx |-> i,
                                     n |-> n_part[i].int, code |-> code])
        /\ IF code # 0
           THEN /\ pc' = "done" /\ outcome' = "CalledProcessError"
                /\ fs' = DropFields(fs, {OUT})
                /\ UNCHANGED <<successes, i>>
           ELSE /\ successes' = Append(successes, n_part[i].int)
                /\ fs' = fs
                /\ IF i < Len(n_part)
                   THEN pc' = "write" /\ i' = i + 1 /\ outcome' = outcome
                   ELSE pc' = "done" /\ i' = i /\ outcome' = "ok"
    /\ UNCHANGED <<inputs, alpha, beta, gamma, n_part, asked, bin, result>>

\* lines 121-122 : the child exits; check=True raises on a non-zero code
PartitionerExit ==
    /\ pc = "wait"
    /\ \E code \in ChildExitCodes(bin[1], on_path) :
        /\ events' = Append(events, [ev |-> "exit", idx |-> i,
                                     n |-> n_part[i].int, code |-> code])
        /\ IF code # 0
           THEN /\ pc' = "done" /\ outcome' = "CalledProcessError"
                /\ UNCHANGED <<successes, i>>
           ELSE /\ successes' = Append(successes, n_part[i].int)
                /\ IF i < Len(n_part)
                   THEN pc' = "write" /\ i' = i + 1 /\ outcome' = outcome
                   ELSE pc' = "done" /\ i' = i /\ outcome' = "ok"
    /\ UNCHANGED <<inputs, fs, alpha, beta, gamma, n_part, asked, bin,
                   result>>

Next ==
    \/ ParseOptions
    \/ AskCheckbox
    \/ AddCustom
    \/ NoMoreCustom
    \/ ConfirmProceed
    \/ ConvertCounts
    \/ ConstructPartitioner
    \/ WriteNamelist
    \/ SpawnPartitioner
    \/ PartitionerExit

Spec == Init /\ [][Next]_vars

\* ------------------------------------------- direct calls of the functions
\* prepare_namelist and partition_mesh called as library functions, with
\* any combination of the optional angles
OptAngles == {None} \cup {Some(a) : a \in AngleValues}

InitApi ==
    /\ argv = <<>>
    /\ interactive = FALSE
    /\ rotated = None
    /\ use_cavity \in BOOLEAN
    /\ fesom_ini = None
    /\ on_path = {_BIN}
    /\ optimize = FALSE
    /\ mesh_path \in MeshPaths
    /\ InitFiles(Templates)
    /\ answers = NoAnswers
    /\ alpha \in OptAngles /\ beta \in OptAngles /\ gamma \in OptAngles
    /\ call_n \in CallCounts
    /\ n_part = <<>>
    /\ asked = 0
    /\ bin = Some(BinOf(fesom_ini))
    /\ i = 0
    /\ events = <<>>
    /\ successes = <<>>
    /\ outcome = "running"
    /\ result = NoResult
    /\ pc = "api"

\* lines 131-163
CallPrepareNamelist ==
    /\ pc = "api"
    /\ result' = prepare_namelist(ReadTemplate(namelist, bundled, fs),
                                  mesh_path, call_n, alpha, beta, gamma,
                                  use_cavity)
    /\ pc' = "returned"
    /\ UNCHANGED <<inputs, fs, alpha, beta, gamma, n_part, asked, bin, i,
                   events, successes, outcome>>

\* lines 103-113 : partition_mesh entered for the one count call_n
CallPartitionMesh ==
    /\ pc = "api"
    /\ n_part' = <<[int |-> call_n]>>
    /\ i' = 1
    /\ pc' = "write"
    /\ UNCHANGED <<inputs, fs, alpha, beta, gamma, asked, bin, events,
                   successes, outcome, result>>

NextApi ==
    \/ CallPrepareNamelist
    \/ CallPartitionMesh
    \/ WriteNamelist
    \/ SpawnPartitioner
    \/ PartitionerExit

SpecApi == InitApi /\ [][NextApi]_vars

\* ---------------------------------------------------------------- helpers
Has(doc, s, f) == s \in DOMAIN doc /\ f \in DOMAIN doc[s]

SameField(d1, d2, s, f) ==
    /\ Has(d1, s, f) <=> Has(d2, s, f)
    /\ Has(d1, s, f) => d1[s][f] = d2[s][f]

Tmpl == ReadTemplate(namelist, bundled, fs)

Returned == pc = "returned" /\ result.err = "none"

CavityFields == {<<"ale_def", "use_partial_cell">>,
                 <<"run_config", "use_cavity">>,
                 <<"run_config", "use_cavity_partial_cell">>}

AngleFields == {<<"alphaeuler", alpha>>, <<"betaeuler", beta>>,
                <<"gammaeuler", gamma>>}

Supplied == {af \in AngleFields : af[2] # None}

Partial == Supplied # {} /\ Supplied # AngleFields

MayChange ==
    {<<"paths", "meshpath">>, <<"machine", "n_levels">>,
     <<"machine", "n_part">>}
    \cup {<<"geometry", af[1]>> : af \in Supplied}
    \cup (IF use_cavity THEN CavityFields ELSE {})

SectionsNeeded ==
    {"paths", "machine"}
    \cup (IF Supplied # {} THEN {"geometry"} ELSE {})
    \cup (IF use_cavity THEN {"ale_def", "run_config"} ELSE {})

\* ----------------------------------------------------------------- claims
\* C6: for every template and every positive integer n, the document
\* prepare_namelist returns, and the one partition_mesh writes, has
\* machine.n_levels = 1 and machine.n_part = n.
C6_LevelsAndCount ==
    /\ (Returned /\ call_n > 0) =>
          /\ result.doc["machine"]["n_levels"] = 1
          /\ result.doc["machine"]["n_part"] = call_n
    /\ (pc \in {"spawn", "wait"} /\ n_part[i].int > 0) =>
          /\ fs[OUT]["machine"]["n_levels"] = 1
          /\ fs[OUT]["machine"]["n_part"] = n_part[i].int

C6_Witness ==
    /\ Returned /\ call_n > 0
    /\ Has(Tmpl, "machine", "n_levels") /\ Tmpl["machine"]["n_levels"] = 3
    /\ Tmpl["machine"]["n_part"] # call_n
    /\ result.doc["machine"]["n_levels"] = 1

\* C7: with the cavity flag enabled the three cavity fields are all true in
\* the returned document; with the flag disabled each of the three is as it
\* was in the template (present or absent, and with the same value).
C7_Cavity ==
    Returned =>
        IF use_cavity
        THEN \A sf \in CavityFields :
                Has(result.doc, sf[1], sf[2]) /\ result.doc[sf[1]][sf[2]] = TRUE
        ELSE \A sf \in CavityFields : SameField(result.doc, Tmpl, sf[1], sf[2])

C7_Witness ==
    /\ Returned /\ ~use_cavity
    /\ \A sf \in CavityFields :
          Has(Tmpl, sf[1], sf[2]) /\ Tmpl[sf[1]][sf[2]] = TRUE
          /\ result.doc[sf[1]][sf[2]] = TRUE

\* C8: the returned document has the sections of the template, and every
\* field other than paths.meshpath, machine.n_levels, machine.n_part, the
\* supplied Euler angles and (with cavity enabled) the three cavity fields
\* is present or absent, and valued, as in the template.
C8_Frame ==
    Returned =>
        /\ DOMAIN result.doc = DOMAIN Tmpl
        /\ \A s \in DOMAIN Tmpl :
              \A f \in (DOMAIN Tmpl[s]) \cup (DOMAIN result.doc[s]) :
                  <<s, f>> \notin MayChange => SameField(result.doc, Tmpl, s, f)

C8_Witness ==
    /\ Returned /\ use_cavity
    /\ alpha # None /\ beta = None /\ gamma # None
    /\ Tmpl = FullTemplate(3, 16, TRUE)
    /\ result.doc["geometry"]["betaeuler"] = 15
    /\ result.doc["paths"]["resultpath"] = "../results/"
    /\ result.doc["paths"]["meshpath"] = mesh_path

\* C2 as stated: a call with only one or two of the angles fails, and no
\* document is returned or written for it.
C2_AllOrNothing ==
    Partial => /\ pc = "returned" => result.err # "none"
               /\ events = <<>>

\* C2 as the code has it: prepare_namelist does not reject a partial
\* rotation.  With one or two angles supplied it fails only when the
\* template lacks a section it assigns into; otherwise each supplied angle
\* is stored and each angle not supplied keeps the template's value, and
\* partition_mesh writes a document with the supplied angles stored.
C2_PartialApplied ==
    Partial =>
        /\ pc = "returned" =>
              /\ result.err = "none" <=> SectionsNeeded \subseteq DOMAIN Tmpl
              /\ result.err = "none" =>
                    \A af \in AngleFields :
                        IF af[2] # None
                        THEN result.doc["geometry"][af[1]] = af[2][1]
                        ELSE SameField(result.doc, Tmpl, "geometry", af[1])
        /\ pc \in {"spawn", "wait"} =>
              \A af \in Supplied : fs[OUT]["geometry"][af[1]] = af[2][1]

C2_Witness ==
    /\ Returned
    /\ alpha = Some(10) /\ beta = None /\ gamma = None
    /\ result.doc["geometry"]["alphaeuler"] = 10
    /\ Tmpl["geometry"]["betaeuler"] = 15
    /\ result.doc["geometry"]["betaeuler"] = 15
    /\ result.doc["geometry"]["gammaeuler"] = -90

\* ------------------------------------------------- claims about main's run
FailedAt(k) == events[k].ev = "exit" /\ events[k].code # 0

AttemptedAt(j) ==
    /\ \E m \in 1..Len(events) : events[m].ev = "write" /\ events[m].idx = j
    /\ \E m \in 1..Len(events) : events[m].ev = "spawn" /\ events[m].idx = j

\* C1 as stated: a non-zero exit for one count does not end the run, and
\* every later requested count is still written and spawned.
C1_FailureIndependent ==
    \A k \in 1..Len(events) :
        FailedAt(k) =>
            /\ outcome # "CalledProcessError"
            /\ pc = "done" =>
                  \A j \in (events[k].idx + 1)..Len(n_part) : AttemptedAt(j)

\* C1 as the code has it: a non-zero exit of the partitioner for one
\* requested count ends the run with CalledProcessError; the failed exit is
\* the last thing that happens, and no later requested count is written or
\* spawned.
C1_FailureAborts ==
    \A k \in 1..Len(events) :
        FailedAt(k) =>
            /\ k = Len(events)
            /\ pc = "done" /\ outcome = "CalledProcessError"
            /\ \A j \in (events[k].idx + 1)..Len(n_part) : ~AttemptedAt(j)
            /\ \A j \in 1..events[k].idx : AttemptedAt(j)

C1_Witness ==
    /\ Len(events) > 0 /\ FailedAt(Len(events))
    /\ events[Len(events)].idx = 1
    /\ Len(n_part) >= 2
    /\ outcome = "CalledProcessError"

\* C3 as stated: a count that is zero or negative is never written to
\* namelist.config and the partitioner is never spawned for it.
C3_NonPositiveRejected ==
    /\ \A k \in 1..Len(events) : events[k].n > 0
    /\ pc \in {"spawn", "wait"} => fs[OUT]["machine"]["n_part"] > 0

\* C3 as the code has it: the only counts main rejects are strings int()
\* cannot parse, and one such string ends the whole run with ValueError
\* before anything is written or spawned.  Zero and negative integers are
\* accepted: the run ends only in one of the ways below, a KeyError only
\* for a template that lacks a section, and the count is written as it is.
C3_OnlyUnparsableRejected ==
    /\ [](outcome \in {"running", "exited", "ok", "ValueError", "KeyError",
                       "MetisPartitionerError", "CalledProcessError"})
    /\ [](outcome = "KeyError" => ~(SectionsNeeded \subseteq DOMAIN Tmpl))
    /\ [](outcome = "ValueError" => events = <<>>)
    /\ [](pc \in {"spawn", "wait"} =>
             fs[OUT]["machine"]["n_part"] = n_part[i].int)
    /\ [][pc = "convert" =>
            /\ outcome' = "ValueError" <=>
                  \E k \in 1..Len(OrDefault(n_part)) :
                      /\ IsStr(OrDefault(n_part)[k])
                      /\ ~IsIntLiteral(OrDefault(n_part)[k].str)
            /\ outcome' = "ValueError" => fs' = fs /\ pc' = "done"]_vars

C3_Witness ==
    /\ pc = "wait"
    /\ n_part[i].int <= 0
    /\ fs[OUT]["machine"]["n_part"] = n_part[i].int
    /\ events[Len(events)].ev = "spawn" /\ events[Len(events)].n <= 0

\* C4: when the executable (the given one, or fesom_ini by default) is not
\* resolved, nothing is ever written or spawned, whatever the requested
\* counts, and a run that gets to resolve it ends with the error.
C4_ResolveBeforeWrite ==
    ~Which(IF fesom_ini # None THEN fesom_ini[1] ELSE "fesom_ini", on_path) =>
        /\ events = <<>>
        /\ pc \notin {"write", "spawn", "wait"}
        /\ (pc = "done" /\ outcome \notin {"exited", "ValueError"}) =>
              outcome = "MetisPartitionerError"

\* C5: the step in which the child exits non-zero raises (the run ends with
\* CalledProcessError), reports no success, and leaves the namelist.config
\* written for that request on disk as it was.
C5_FailureKeepsFile ==
    [][(pc = "wait" /\ events'[Len(events')].code # 0) =>
          /\ outcome' = "CalledProcessError" /\ pc' = "done"
          /\ successes' = successes
          /\ Len(successes') = i - 1
          /\ OUT \in DOMAIN fs' /\ fs' = fs
          /\ fs'[OUT]["machine"]["n_part"] = n_part[i].int]_vars

C5_Witness ==
    /\ outcome = "CalledProcessError"
    /\ FailedAt(Len(events))
    /\ events[Len(events)].idx = 2 /\ Len(successes) = 1
    /\ fs[OUT]["machine"]["n_part"] = n_part[2].int

\* C9: the side effects are, in order, write, spawn, exit for the first
\* requested count, then for the second, and so on, each at most once;
\* while the child of a request starts and runs, namelist.config holds that
\* request's n_part; a run that ends normally did all of it for every count.
C9_Sequential ==
    /\ \A k \in 1..Len(events) :
          /\ events[k].ev = <<"write", "spawn", "exit">>[((k - 1) % 3) + 1]
          /\ events[k].idx = ((k - 1) \div 3) + 1
          /\ events[k].idx <= Len(n_part)
          /\ events[k].n = n_part[events[k].idx].int
    /\ pc \in {"spawn", "wait"} =>
          /\ Len(events) = 3 * (i - 1) + (IF pc = "spawn" THEN 1 ELSE 2)
          /\ fs[OUT]["machine"]["n_part"] = n_part[i].int
    /\ pc = "write" => Len(events) = 3 * (i - 1)
    /\ outcome = "ok" =>
          /\ Len(events) = 3 * Len(n_part)
          /\ \A k \in 1..Len(events) : events[k].code = 0

C9_Witness ==
    /\ outcome = "ok"
    /\ Len(n_part) = 2 /\ n_part[1].int # n_part[2].int
    /\ Len(events) = 6
    /\ fs[OUT]["machine"]["n_part"] = n_part[2].int

\* C10 as stated: in interactive mode without positional counts the list of
\* requests is the checkbox selection followed by one element per entered
\* text; without counts and without the flag it is [288]; after the user
\* declines to proceed nothing is written or spawned.
C10_InteractiveRequests ==
    /\ (pc = "proceed" /\ interactive /\ Len(argv) = 0) =>
          n_part = answers.selection \o
                     [k \in 1..Len(answers.texts) |-> [str |-> answers.texts[k]]]
    /\ (pc = "construct" /\ ~interactive /\ Len(argv) = 0) =>
          n_part = <<[int |-> 288]>>
    /\ outcome = "exited" => events = <<>>
====
